---- MODULE Spec2Model ----
(***************************************************************************)
(* Model of the upload handler of the Loam Paddock Analyser                *)
(* (backend/app/main.py) and of the geometry pipeline it calls             *)
(* (backend/app/geometry.py, backend/app/models.py).                       *)
(*                                                                         *)
(* Representation.                                                         *)
(*  - A Python str is a sequence of one-character strings, so that         *)
(*    strip(), lower(), "in", f-string concatenation and split("::", 1)    *)
(*    are computed character by character.                                 *)
(*  - A Python value is a record tagged by t: "none", "str", "num",        *)
(*    "bool", "dict", "geojson".  A dict is a function from key to value.  *)
(*  - A float holding square metres is an integer number of 0.001 m2.      *)
(*    Other floats (hectares, acres, percent) are fractions [n, d] that    *)
(*    stand for n / (100 * d).  round(x, 2) yields an integer number of    *)
(*    hundredths, rounding halves to even as Python does.                  *)
(*  - shapely and pyproj are libraries: a GeoJSON payload carries what     *)
(*    they would report for it (validity, emptiness, ring areas).          *)
(***************************************************************************)
EXTENDS Integers, Sequences, FiniteSets, TLC

VARIABLES
    features,             \* data.get("features", [])              main.py:150
    i,                    \* position of the for loop              main.py:168
    projects,             \* the defaultdict, in insertion order   main.py:153
    total_invalid,        \*                                       main.py:163
    total_planar,         \*                                       main.py:164
    total_geodesic,       \*                                       main.py:165
    normalized_features,  \*                                       main.py:166
    project_list,         \*                                       main.py:283
    response,             \* the UploadResponse returned           main.py:323
    raised,               \* the exception that left upload, or "none"
    validations,          \* per feature, the calls of validate_and_repair_geometry
    other,                \* the locals of a second invocation of upload
    pc                    \* "loop", "build", "sort", "respond", "done", "raised"

vars == <<features, i, projects, total_invalid, total_planar, total_geodesic,
          normalized_features, project_list, response, raised, validations,
          other, pc>>

---------------------------------------------------------------------------
(* Bounds of the model *)

MaxFeatures == 3
MaxAreaFeatures == 4

---------------------------------------------------------------------------
(* String literals of the source *)

InvalidPaddocks == <<"I", "n", "v", "a", "l", "i", "d", " ", "P", "a", "d", "d", "o", "c", "k", "s">>
Unknown == <<"U", "n", "k", "n", "o", "w", "n">>
Unnamed == <<"U", "n", "n", "a", "m", "e", "d">>
Sep == <<":", ":">>
NoProjectAssigned == <<"N", "o", " ", "p", "r", "o", "j", "e", "c", "t", " ", "a", "s", "s", "i", "g", "n", "e", "d">>
MissingGeometry == <<"M", "i", "s", "s", "i", "n", "g", " ", "g", "e", "o", "m", "e", "t", "r", "y">>
CouldNotRepair == <<"C", "o", "u", "l", "d", " ", "n", "o", "t", " ", "r", "e", "p", "a", "i", "r", " ", "i", "n", "v", "a", "l", "i", "d", " ", "g", "e", "o", "m", "e", "t", "r", "y">>
EmptyAfterRepair == <<"E", "m", "p", "t", "y", " ", "g", "e", "o", "m", "e", "t", "r", "y", " ", "a", "f", "t", "e", "r", " ", "r", "e", "p", "a", "i", "r">>
GeometryErrorPrefix == <<"G", "e", "o", "m", "e", "t", "r", "y", " ", "e", "r", "r", "o", "r", ":", " ">>
UnknownError == <<"U", "n", "k", "n", "o", "w", "n", " ", "e", "r", "r", "o", "r">>
InvalidGeometry == <<"I", "n", "v", "a", "l", "i", "d", " ", "g", "e", "o", "m", "e", "t", "r", "y">>
FromOpen == <<" ", "(", "f", "r", "o", "m", " ">>
FromClose == <<")">>
InfrastructureKeywords ==
    << <<"s", "h", "e", "d">>, <<"h", "o", "u", "s", "e">>,
       <<"b", "u", "i", "l", "d", "i", "n", "g">> >>

---------------------------------------------------------------------------
(* Python values and the str / dict operations the handler uses *)

PyNone == [t |-> "none"]
PyStr(s) == [t |-> "str", v |-> s]
PyNum(n) == [t |-> "num", v |-> n]
PyBool(b) == [t |-> "bool", v |-> b]
PyDict(d) == [t |-> "dict", v |-> d]
EmptyDict == PyDict(<<>>)

\* bool(x) for the values a property can hold
Truthy(x) ==
    CASE x.t = "none" -> FALSE
      [] x.t = "str"  -> x.v # <<>>
      [] x.t = "dict" -> DOMAIN x.v # {}
      [] OTHER        -> TRUE

\* a or b
PyOr(a, b) == IF Truthy(a) THEN a ELSE b

\* d.get(k) and d.get(k, default) on the mapping of a dict value
Get(d, k) == IF k \in DOMAIN d THEN d[k] ELSE PyNone
GetDefault(d, k, default) == IF k \in DOMAIN d THEN d[k] ELSE default

\* d[k] = v
Put(d, k, v) == [x \in (DOMAIN d) \cup {k} |-> IF x = k THEN v ELSE d[x]]

IsSpace(c) == c \in {" ", "\t", "\n"}

RECURSIVE LStrip(_)
LStrip(s) == IF s # <<>> /\ IsSpace(Head(s)) THEN LStrip(Tail(s)) ELSE s

RECURSIVE RStrip(_)
RStrip(s) ==
    IF s # <<>> /\ IsSpace(s[Len(s)]) THEN RStrip(SubSeq(s, 1, Len(s) - 1)) ELSE s

\* str.strip()
Strip(s) == RStrip(LStrip(s))

UpperLetters ==
    <<"A", "B", "C", "D", "E", "F", "G", "H", "I", "J", "K", "L", "M",
      "N", "O", "P", "Q", "R", "S", "T", "U", "V", "W", "X", "Y", "Z">>
LowerLetters ==
    <<"a", "b", "c", "d", "e", "f", "g", "h", "i", "j", "k", "l", "m",
      "n", "o", "p", "q", "r", "s", "t", "u", "v", "w", "x", "y", "z">>

LowerChar(c) ==
    IF \E k \in DOMAIN UpperLetters : UpperLetters[k] = c
    THEN LowerLetters[CHOOSE k \in DOMAIN UpperLetters : UpperLetters[k] = c]
    ELSE c

\* str.lower()
Lower(s) == [k \in 1..Len(s) |-> LowerChar(s[k])]

\* sub in s
Contains(s, sub) ==
    \E k \in 1..(Len(s) - Len(sub) + 1) : SubSeq(s, k, k + Len(sub) - 1) = sub

\* s.split("::", 1) of a string that holds "::": the text before the first
\* "::" and the text after it
FirstSep(s) ==
    CHOOSE k \in 1..(Len(s) - 1) :
        /\ SubSeq(s, k, k + 1) = Sep
        /\ \A j \in 1..(k - 1) : SubSeq(s, j, j + 1) # Sep
SplitOnce(s) ==
    <<SubSeq(s, 1, FirstSep(s) - 1), SubSeq(s, FirstSep(s) + 2, Len(s))>>

---------------------------------------------------------------------------
(* Floats *)

Abs(n) == IF n < 0 THEN -n ELSE n

\* n / d rounded to the nearest integer, halves to the even neighbour; d > 0
RoundHalfEven(n, d) ==
    LET q == n \div d
        r == n % d
    IN  IF 2 * r < d THEN q
        ELSE IF 2 * r > d THEN q + 1
        ELSE IF q % 2 = 0 THEN q ELSE q + 1

\* round(x, 2) of a square-metre float (thousandths in, hundredths out)
Round2(x) == RoundHalfEven(x, 10)

\* round(x, 2) of a fraction [n, d] standing for n / (100 * d)
Round2Frac(x) == RoundHalfEven(x.n, x.d)

\* m2 / 10_000
Hectares(m2) == [n |-> m2, d |-> 100000]

\* m2 * 0.000247105  (0.000247105 = 49421 / 200000000)
Acres(m2) == [n |-> m2 * 49421, d |-> 2000000000]

\* (diff / planar * 100) if planar > 0 else 0
DifferencePercent(diff, planar) ==
    IF planar > 0 THEN [n |-> diff * 10000, d |-> planar] ELSE [n |-> 0, d |-> 1]

---------------------------------------------------------------------------
(* geometry.py *)

\* A GeoJSON geometry payload carries what shapely and pyproj report for it:
\*   type   the GeoJSON type of the decoded (and, if repaired, repaired) geometry
\*   cond   "valid", "repairable" (invalid, make_valid succeeds),
\*          "unrepairable" (make_valid's result is still invalid),
\*          "empty" (valid and empty), "undecodable" (shape() raises msg)
\*   area   geom.area * 111_320 * 78_847, signed, in 0.001 m2
\*   polys  per polygon, the signed WGS84 area of the exterior ring and of
\*          each interior ring, in 0.001 m2
GeoJSON(type, cond, area, polys, msg) ==
    [t |-> "geojson", type |-> type, cond |-> cond, area |-> area,
     polys |-> polys, msg |-> msg]

\* shape(geometry_dict), when it does not raise
shape(geometry_dict) ==
    [type |-> geometry_dict.type,
     is_valid |-> geometry_dict.cond \in {"valid", "empty"},
     is_empty |-> geometry_dict.cond = "empty",
     area |-> geometry_dict.area,
     polys |-> geometry_dict.polys,
     payload |-> geometry_dict]

\* make_valid(geom)
make_valid(geom) == [geom EXCEPT !.is_valid = (geom.payload.cond # "unrepairable")]

\* geom.__geo_interface__
geo_interface(geom) == [geom.payload EXCEPT !.cond = "valid"]

calculate_planar_area_m2(geom) == Abs(geom.area)

RECURSIVE SumAbs(_)
SumAbs(rings) == IF rings = <<>> THEN 0 ELSE Abs(Head(rings)) + SumAbs(Tail(rings))

polygon_area(poly) == Abs(poly.exterior) - SumAbs(poly.interiors)

RECURSIVE SumPolygonAreas(_)
SumPolygonAreas(geoms) ==
    IF geoms = <<>> THEN 0 ELSE polygon_area(Head(geoms)) + SumPolygonAreas(Tail(geoms))

calculate_geodesic_area_m2(geom) ==
    IF geom.type = "Polygon" THEN polygon_area(geom.polys[1])
    ELSE IF geom.type = "MultiPolygon" THEN SumPolygonAreas(geom.polys)
    ELSE 0

\* returns (geom, error)
validate_and_repair_geometry(feature) ==
    LET geometry_dict == Get(feature, "geometry") IN
    IF geometry_dict.t = "none"
    THEN [geom |-> PyNone, error |-> PyStr(MissingGeometry)]
    ELSE IF geometry_dict.cond = "undecodable"
    THEN [geom |-> PyNone, error |-> PyStr(GeometryErrorPrefix \o geometry_dict.msg)]
    ELSE LET parsed == shape(geometry_dict)
             geom == IF ~parsed.is_valid THEN make_valid(parsed) ELSE parsed
         IN  IF ~parsed.is_valid /\ ~geom.is_valid
             THEN [geom |-> PyNone, error |-> PyStr(CouldNotRepair)]
             ELSE IF geom.is_empty
             THEN [geom |-> PyNone, error |-> PyStr(EmptyAfterRepair)]
             ELSE [geom |-> geom, error |-> PyNone]

\* the area dict, or None
get_feature_area(feature) ==
    LET res == validate_and_repair_geometry(feature) IN
    IF Truthy(res.error) \/ res.geom = PyNone
    THEN PyNone
    ELSE LET planar_m2 == calculate_planar_area_m2(res.geom)
             geodesic_m2 == calculate_geodesic_area_m2(res.geom)
             difference_m2 == geodesic_m2 - planar_m2
         IN  [t |-> "dict",
              area_planar_m2 |-> planar_m2,
              area_geodesic_m2 |-> geodesic_m2,
              area_m2 |-> geodesic_m2,
              area_ha |-> Hectares(geodesic_m2),
              area_ac |-> Acres(geodesic_m2),
              difference_m2 |-> difference_m2,
              difference_percent |-> DifferencePercent(difference_m2, planar_m2)]

\* feature.get("properties", {}) of a feature whose properties are not null
PropertiesOrDefault(feature) == GetDefault(feature, "properties", EmptyDict)

\* the keys added for a valid geometry
ValidProperties(props, area_info) ==
    LET p1 == Put(props, "area_planar_m2", PyNum(Round2(area_info.area_planar_m2)))
        p2 == Put(p1, "area_geodesic_m2", PyNum(Round2(area_info.area_geodesic_m2)))
        p3 == Put(p2, "area_m2", PyNum(Round2(area_info.area_m2)))
        p4 == Put(p3, "area_ha", PyNum(Round2Frac(area_info.area_ha)))
        p5 == Put(p4, "area_ac", PyNum(Round2Frac(area_info.area_ac)))
        p6 == Put(p5, "difference_m2", PyNum(Round2(area_info.difference_m2)))
        p7 == Put(p6, "difference_percent",
                  PyNum(Round2Frac(area_info.difference_percent)))
    IN  Put(p7, "geometry_valid", PyBool(TRUE))

\* Mutant: the error message is not recorded
InvalidProperties_NoError(props, error) == Put(props, "geometry_valid", PyBool(FALSE))

\* the keys added otherwise
InvalidProperties(props, error) ==
    Put(Put(props, "geometry_valid", PyBool(FALSE)),
        "error", PyOr(error, PyStr(UnknownError)))

create_normalized_feature(feature, area_info) ==
    LET res == validate_and_repair_geometry(feature)
        props == PropertiesOrDefault(feature).v
    IN  IF area_info # PyNone /\ res.geom # PyNone
        THEN [type |-> "Feature", geometry |-> geo_interface(res.geom),
              properties |-> ValidProperties(props, area_info)]
        ELSE [type |-> "Feature", geometry |-> Get(feature, "geometry"),
              properties |-> InvalidProperties(props, res.error)]

---------------------------------------------------------------------------
(* main.py: helpers *)

\* Mutant: the keywords are looked for in the label as written
is_infrastructure_CaseSensitive(name) ==
    \E k \in DOMAIN InfrastructureKeywords : Contains(name, InfrastructureKeywords[k])

is_infrastructure(name) ==
    LET name_lower == Lower(name) IN
    \E k \in DOMAIN InfrastructureKeywords :
        Contains(name_lower, InfrastructureKeywords[k])

\* feature.get("properties") or {}
PropertiesOrEmpty(feature) == PyOr(Get(feature, "properties"), EmptyDict).v

extract_owner(feature) ==
    LET props == PropertiesOrEmpty(feature)
        owner == PyOr(PyOr(Get(props, "owner"), Get(props, "Owner")), Get(props, "OWNER"))
    IN  IF Truthy(owner) THEN Strip(owner.v) ELSE Unknown

\* Mutant: a feature without project name gets the project "Unknown"
extract_project_name_Unknown(feature) ==
    LET props == PropertiesOrEmpty(feature)
        project == PyOr(PyOr(Get(props, "Project__Name"), Get(props, "project_name")),
                        Get(props, "project"))
    IN  IF ~Truthy(project) THEN PyStr(Unknown) ELSE PyStr(Strip(project.v))

\* the project name as a str value, or None
extract_project_name(feature) ==
    LET props == PropertiesOrEmpty(feature)
        project == PyOr(PyOr(Get(props, "Project__Name"), Get(props, "project_name")),
                        Get(props, "project"))
    IN  IF ~Truthy(project) THEN PyNone ELSE PyStr(Strip(project.v))

---------------------------------------------------------------------------
(* models.py: the constructors keep the declared fields and drop any other *)
(* keyword (pydantic ignores extra keywords by default)                    *)

\* PaddockDetail(name=..., paddock_type=..., ...): paddock_type is no field
PaddockDetail(name, paddock_type, area_ha, area_ac, area_planar_m2, area_geodesic_m2, difference_percent, note) ==
    [name |-> name.v, area_ha |-> area_ha, area_ac |-> area_ac,
     area_planar_m2 |-> area_planar_m2, area_geodesic_m2 |-> area_geodesic_m2,
     difference_percent |-> difference_percent, note |-> note]

\* name: str is required: None fails validation
PaddockDetailRaises(name) == name.t # "str"

\* ProjectSummary(owner=..., project_name=..., ...): owner is no field
ProjectSummary(owner, project_name, paddock_count, valid_paddocks, invalid_paddocks, area_planar_m2, area_geodesic_m2, area_m2, area_ha, area_ac, difference_m2, difference_percent, paddocks) ==
    [project_name |-> project_name, paddock_count |-> paddock_count,
     valid_paddocks |-> valid_paddocks, invalid_paddocks |-> invalid_paddocks,
     area_planar_m2 |-> area_planar_m2, area_geodesic_m2 |-> area_geodesic_m2,
     area_m2 |-> area_m2, area_ha |-> area_ha, area_ac |-> area_ac,
     difference_m2 |-> difference_m2, difference_percent |-> difference_percent,
     paddocks |-> paddocks]

UploadSummary(total_projects, total_paddocks, invalid_paddocks, total_area_planar_m2, total_area_geodesic_m2, total_difference_m2, total_difference_percent) ==
    [total_projects |-> total_projects, total_paddocks |-> total_paddocks,
     invalid_paddocks |-> invalid_paddocks,
     total_area_planar_m2 |-> total_area_planar_m2,
     total_area_geodesic_m2 |-> total_area_geodesic_m2,
     total_difference_m2 |-> total_difference_m2,
     total_difference_percent |-> total_difference_percent]

---------------------------------------------------------------------------
(* main.py: the defaultdict `projects`, a sequence of [key, data] entries  *)
(* in insertion order                                                      *)

DefaultProject ==
    [owner |-> PyNone, paddock_count |-> 0, valid_paddocks |-> 0,
     invalid_paddocks |-> 0, area_planar_m2 |-> 0, area_geodesic_m2 |-> 0,
     paddocks |-> <<>>]

HasKey(d, key) == \E n \in DOMAIN d : d[n].key = key
IndexOf(d, key) == CHOOSE n \in DOMAIN d : d[n].key = key

\* projects[key]: reading a missing key inserts the default entry
Touch(d, key) ==
    IF HasKey(d, key) THEN d ELSE Append(d, [key |-> key, data |-> DefaultProject])

Entry(d, key) == d[IndexOf(d, key)].data

\* the handler's writes to one entry
Store(d, key, data) == [d EXCEPT ![IndexOf(d, key)].data = data]

\* f"{owner}::{label}"
ProjectKey(owner, label) == owner \o Sep \o label

\* if projects[key]["owner"] is None: projects[key]["owner"] = owner
SetOwner(data, owner) ==
    IF data.owner = PyNone THEN [data EXCEPT !.owner = PyStr(owner)] ELSE data

\* Mutant: the owner of the normalized feature is left as it was
TagNormalized_OwnerKept(normalized_feature, paddock_name, owner, is_invalid) ==
    [normalized_feature EXCEPT !.properties =
        Put(Put(@, "paddock_type", paddock_name), "is_invalid", PyBool(is_invalid))]

\* the three assignments that follow create_normalized_feature
TagNormalized(normalized_feature, paddock_name, owner, is_invalid) ==
    [normalized_feature EXCEPT !.properties =
        Put(Put(Put(@, "paddock_type", paddock_name), "owner", PyStr(owner)),
            "is_invalid", PyBool(is_invalid))]

\* Mutant: rows of the invalid bucket never show an area
RoundedOrNone_Never(area_info, x) == PyNone

\* round(area_info[k], 2) if area_info else None
RoundedOrNone(area_info, x) == IF area_info # PyNone THEN PyNum(x) ELSE PyNone

\* The locals of upload that the loop body reads and writes
Locals ==
    [projects |-> projects, total_invalid |-> total_invalid,
     total_planar |-> total_planar, total_geodesic |-> total_geodesic,
     normalized_features |-> normalized_features, error |-> "none"]

Raise(st, exception) == [st EXCEPT !.error = exception]

\* project_name is None: the invalid paddock entry
NoProjectBranch(st, feature, owner, paddock_name) ==
    LET project_key == ProjectKey(owner, InvalidPaddocks)
        d0 == Touch(st.projects, project_key)
        e0 == SetOwner(Entry(d0, project_key), owner)
        e1 == [e0 EXCEPT !.paddock_count = @ + 1, !.invalid_paddocks = @ + 1]
        area_info == get_feature_area(feature)
        normalized_feature ==
            TagNormalized(create_normalized_feature(feature, area_info),
                          paddock_name, owner, TRUE)
        paddock ==
            PaddockDetail(paddock_name, paddock_name,
                RoundedOrNone(area_info, Round2Frac(area_info.area_ha)),
                RoundedOrNone(area_info, Round2Frac(area_info.area_ac)),
                RoundedOrNone(area_info, Round2(area_info.area_planar_m2)),
                RoundedOrNone(area_info, Round2(area_info.area_geodesic_m2)),
                RoundedOrNone(area_info, Round2Frac(area_info.difference_percent)),
                PyStr(NoProjectAssigned))
        e2 == [e1 EXCEPT !.paddocks = Append(@, paddock)]
    IN  IF PaddockDetailRaises(paddock_name)
        THEN Raise(st, "ValidationError")
        ELSE [st EXCEPT !.projects = Store(d0, project_key, e2),
                        !.total_invalid = @ + 1,
                        !.normalized_features = Append(@, normalized_feature)]

\* Mutant: the group sums accumulate the rounded areas
AccumulateGroup_Rounded(data, area_info) ==
    [data EXCEPT !.area_planar_m2 = @ + 10 * Round2(area_info.area_planar_m2),
                 !.area_geodesic_m2 = @ + 10 * Round2(area_info.area_geodesic_m2)]

\* projects[project_key]["area_planar_m2"] += ..., ["area_geodesic_m2"] += ...
AccumulateGroup(data, area_info) ==
    [data EXCEPT !.area_planar_m2 = @ + area_info.area_planar_m2,
                 !.area_geodesic_m2 = @ + area_info.area_geodesic_m2]

\* Mutant: the row is put at the head of the list of its group
ValidGeometryBranch_Prepend(st, d0, project_key, area_info, normalized_feature, paddock_name) ==
    LET e0 == Entry(d0, project_key)
        e1 == IF ~is_infrastructure(paddock_name.v)
              THEN [e0 EXCEPT !.valid_paddocks = @ + 1] ELSE e0
        paddock ==
            PaddockDetail(paddock_name, paddock_name,
                PyNum(Round2Frac(area_info.area_ha)),
                PyNum(Round2Frac(area_info.area_ac)),
                PyNum(Round2(area_info.area_planar_m2)),
                PyNum(Round2(area_info.area_geodesic_m2)),
                PyNum(Round2Frac(area_info.difference_percent)),
                PyNone)
        e2 == [AccumulateGroup(e1, area_info) EXCEPT !.paddocks = <<paddock>> \o @]
    IN  IF paddock_name.t # "str"
        THEN Raise(st, "AttributeError")   \* None has no lower()
        ELSE [st EXCEPT !.projects = Store(d0, project_key, e2),
                        !.total_planar = @ + area_info.area_planar_m2,
                        !.total_geodesic = @ + area_info.area_geodesic_m2,
                        !.normalized_features = Append(@, normalized_feature)]

\* if area_info: valid geometry
ValidGeometryBranch(st, d0, project_key, area_info, normalized_feature, paddock_name) ==
    LET e0 == Entry(d0, project_key)
        e1 == IF ~is_infrastructure(paddock_name.v)
              THEN [e0 EXCEPT !.valid_paddocks = @ + 1] ELSE e0
        paddock ==
            PaddockDetail(paddock_name, paddock_name,
                PyNum(Round2Frac(area_info.area_ha)),
                PyNum(Round2Frac(area_info.area_ac)),
                PyNum(Round2(area_info.area_planar_m2)),
                PyNum(Round2(area_info.area_geodesic_m2)),
                PyNum(Round2Frac(area_info.difference_percent)),
                PyNone)
        e2 == [AccumulateGroup(e1, area_info) EXCEPT !.paddocks = Append(@, paddock)]
    IN  IF paddock_name.t # "str"
        THEN Raise(st, "AttributeError")   \* None has no lower()
        ELSE [st EXCEPT !.projects = Store(d0, project_key, e2),
                        !.total_planar = @ + area_info.area_planar_m2,
                        !.total_geodesic = @ + area_info.area_geodesic_m2,
                        !.normalized_features = Append(@, normalized_feature)]

\* Mutant: the row of a feature whose geometry failed stays in the group of
\* its project
InvalidGeometryBranch_InProject(st, d0, project_key, owner, project_name, normalized_feature, paddock_name) ==
    LET error_msg == GetDefault(normalized_feature.properties, "error",
                                PyStr(InvalidGeometry))
        paddock ==
            PaddockDetail(paddock_name, paddock_name, PyNone, PyNone, PyNone,
                PyNone, PyNone,
                PyStr(error_msg.v \o FromOpen \o project_name \o FromClose))
        e0 == [Entry(d0, project_key) EXCEPT !.invalid_paddocks = @ + 1,
                                             !.paddocks = Append(@, paddock)]
    IN  IF PaddockDetailRaises(paddock_name)
        THEN Raise(st, "ValidationError")
        ELSE [st EXCEPT !.projects = Store(d0, project_key, e0),
                        !.total_invalid = @ + 1,
                        !.normalized_features = Append(@, normalized_feature)]

\* else: invalid geometry, listed in the owner's "Invalid Paddocks" group
InvalidGeometryBranch(st, d0, project_key, owner, project_name, normalized_feature, paddock_name) ==
    LET e0 == [Entry(d0, project_key) EXCEPT !.invalid_paddocks = @ + 1]
        d1 == Store(d0, project_key, e0)
        invalid_project_key == ProjectKey(owner, InvalidPaddocks)
        d2 == Touch(d1, invalid_project_key)
        f0 == SetOwner(Entry(d2, invalid_project_key), owner)
        f1 == [f0 EXCEPT !.paddock_count = @ + 1, !.invalid_paddocks = @ + 1]
        error_msg == GetDefault(normalized_feature.properties, "error",
                                PyStr(InvalidGeometry))
        paddock ==
            PaddockDetail(paddock_name, paddock_name, PyNone, PyNone, PyNone,
                PyNone, PyNone,
                PyStr(error_msg.v \o FromOpen \o project_name \o FromClose))
        f2 == [f1 EXCEPT !.paddocks = Append(@, paddock)]
    IN  IF PaddockDetailRaises(paddock_name)
        THEN Raise(st, "ValidationError")
        ELSE [st EXCEPT !.projects = Store(d2, invalid_project_key, f2),
                        !.total_invalid = @ + 1,
                        !.normalized_features = Append(@, normalized_feature)]

\* a feature that has a project
ProjectBranch(st, feature, owner, project_name, paddock_name) ==
    LET project_key == ProjectKey(owner, project_name)
        d0 == Touch(st.projects, project_key)
        e0 == SetOwner(Entry(d0, project_key), owner)
        e1 == [e0 EXCEPT !.paddock_count = @ + 1]
        d1 == Store(d0, project_key, e1)
        area_info == get_feature_area(feature)
        normalized_feature ==
            TagNormalized(create_normalized_feature(feature, area_info),
                          paddock_name, owner, FALSE)
    IN  IF area_info # PyNone
        THEN ValidGeometryBranch(st, d1, project_key, area_info,
                                 normalized_feature, paddock_name)
        ELSE InvalidGeometryBranch(st, d1, project_key, owner, project_name,
                                   normalized_feature, paddock_name)

\* One iteration of `for feature in features`
LoopBody(st, feature) ==
    LET owner == extract_owner(feature)
        project_name == extract_project_name(feature)
        props == GetDefault(feature, "properties", EmptyDict)
        paddock_name == GetDefault(props.v, "name", PyStr(Unnamed))
    IN  IF props.t # "dict"
        THEN Raise(st, "AttributeError")   \* None has no get()
        ELSE IF project_name = PyNone
        THEN NoProjectBranch(st, feature, owner, paddock_name)
        ELSE ProjectBranch(st, feature, owner, project_name.v, paddock_name)

\* The calls of validate_and_repair_geometry that one call of each function
\* makes (geometry.py:180, geometry.py:220)
CallsIn_get_feature_area == 1
CallsIn_create_normalized_feature == 1

\* The calls one iteration makes: none when line 174 raises, otherwise both
\* functions are called once, in either branch, before any later statement
\* can raise (main.py:190, 193 and main.py:222, 225)
ValidationCalls(feature) ==
    IF GetDefault(feature, "properties", EmptyDict).t # "dict"
    THEN 0
    ELSE CallsIn_get_feature_area + CallsIn_create_normalized_feature

---------------------------------------------------------------------------
(* main.py: finalization *)

\* Mutant: the percentage is taken of the geodesic sum
Summarize_PercentOfGeodesic(entry) ==
    LET parts == SplitOnce(entry.key)
        owner == parts[1]
        project_name == parts[2]
        data == entry.data
        planar == data.area_planar_m2
        geodesic == data.area_geodesic_m2
        diff == geodesic - planar
        diff_pct == DifferencePercent(diff, geodesic)
    IN  ProjectSummary(owner, project_name, data.paddock_count,
            data.valid_paddocks, data.invalid_paddocks,
            Round2(planar), Round2(geodesic), Round2(geodesic),
            Round2Frac(Hectares(geodesic)), Round2Frac(Acres(geodesic)),
            Round2(diff), Round2Frac(diff_pct), data.paddocks)

\* One ProjectSummary, from one item of projects.items()
Summarize(entry) ==
    LET parts == SplitOnce(entry.key)
        owner == parts[1]
        project_name == parts[2]
        data == entry.data
        planar == data.area_planar_m2
        geodesic == data.area_geodesic_m2
        diff == geodesic - planar
        diff_pct == DifferencePercent(diff, planar)
    IN  ProjectSummary(owner, project_name, data.paddock_count,
            data.valid_paddocks, data.invalid_paddocks,
            Round2(planar), Round2(geodesic), Round2(geodesic),
            Round2Frac(Hectares(geodesic)), Round2Frac(Acres(geodesic)),
            Round2(diff), Round2Frac(diff_pct), data.paddocks)

\* project_list after the loop over projects.items()
BuildList(d) == [n \in 1..Len(d) |-> Summarize(d[n])]

\* The characters of the model's strings, in code point order
CodePoints ==
    <<"\t", "\n", " ", "(", ")", ":">> \o UpperLetters \o LowerLetters
CodePoint(c) == CHOOSE k \in DOMAIN CodePoints : CodePoints[k] = c

\* a < b on str
RECURSIVE StrLess(_, _)
StrLess(a, b) ==
    IF b = <<>> THEN FALSE
    ELSE IF a = <<>> THEN TRUE
    ELSE IF Head(a) # Head(b) THEN CodePoint(Head(a)) < CodePoint(Head(b))
    ELSE StrLess(Tail(a), Tail(b))

\* a < b on the tuples (owner, project_name)
KeyLess(a, b) == StrLess(a[1], b[1]) \/ (a[1] = b[1] /\ StrLess(a[2], b[2]))

\* lambda p: (p.owner, p.project_name); reading p.owner raises AttributeError
\* when p has no such attribute
SortKeyRaises(p) == "owner" \notin DOMAIN p
SortKey(p) == <<p.owner, p.project_name>>

\* list.sort(key=...): stable, ascending
RECURSIVE InsertSorted(_, _)
InsertSorted(sorted, p) ==
    IF sorted = <<>> THEN <<p>>
    ELSE IF KeyLess(SortKey(p), SortKey(Head(sorted)))
    THEN <<p>> \o sorted
    ELSE <<Head(sorted)>> \o InsertSorted(Tail(sorted), p)

RECURSIVE SortedList(_)
SortedList(l) ==
    IF l = <<>> THEN <<>>
    ELSE InsertSorted(SortedList(SubSeq(l, 1, Len(l) - 1)), l[Len(l)])

\* Mutant: the geodesic total is filled from the planar total
SummaryOf_PlanarTwice(fs, list, invalid, planar, geodesic) ==
    LET total_diff == geodesic - planar
        total_diff_pct == DifferencePercent(total_diff, planar)
    IN  UploadSummary(Len(list), Len(fs), invalid, Round2(planar),
            Round2(planar), Round2(total_diff), Round2Frac(total_diff_pct))

\* UploadSummary(...) of the response
SummaryOf(fs, list, invalid, planar, geodesic) ==
    LET total_diff == geodesic - planar
        total_diff_pct == DifferencePercent(total_diff, planar)
    IN  UploadSummary(Len(list), Len(fs), invalid, Round2(planar),
            Round2(geodesic), Round2(total_diff), Round2Frac(total_diff_pct))

---------------------------------------------------------------------------
(* The feature collections the model uploads *)

Dict1(k1, v1) == PyDict(k1 :> v1)
Dict2(k1, v1, k2, v2) == PyDict(k1 :> v1 @@ k2 :> v2)
Dict3(k1, v1, k2, v2, k3, v3) == PyDict(k1 :> v1 @@ k2 :> v2 @@ k3 :> v3)
Dict4(k1, v1, k2, v2, k3, v3, k4, v4) == PyDict(k1 :> v1 @@ k2 :> v2 @@ k3 :> v3 @@ k4 :> v4)
Feature(properties, geometry) == [properties |-> properties, geometry |-> geometry]

NoMsg == <<>>
Square(area, exterior) ==
    GeoJSON("Polygon", "valid", area, <<[exterior |-> exterior, interiors |-> <<>>]>>, NoMsg)
Holed == GeoJSON("Polygon", "valid", 1234,
                 <<[exterior |-> -1500, interiors |-> <<100>>]>>, NoMsg)
BowTie == GeoJSON("MultiPolygon", "repairable", 30,
                  <<[exterior |-> 17, interiors |-> <<>>],
                    [exterior |-> -18, interiors |-> <<>>]>>, NoMsg)
Undecodable == GeoJSON("Polygon", "undecodable", 0, <<>>, <<"b", "a", "d">>)

Pool ==
    << \* 1: a paddock with owner and project, a polygon with a hole
       Feature(Dict3("owner", PyStr(<<"a">>), "Project__Name", PyStr(<<"P">>),
                     "name", PyStr(<<"N", "o", "r", "t", "h">>)), Holed),
       \* 2: an infrastructure parcel of the same group
       Feature(Dict3("owner", PyStr(<<"a">>), "project_name", PyStr(<<"P">>),
                     "name", PyStr(<<"H", "a", "y", " ", "S", "h", "e", "d">>)),
               Square(16, 18)),
       \* 3: Project__Name null, valid geometry
       Feature(Dict3("Owner", PyStr(<<"a">>), "Project__Name", PyNone,
                     "name", PyStr(<<"O", "r", "p", "h", "a", "n">>)),
               Square(44, 46)),
       \* 4: a project, geometry null
       Feature(Dict3("owner", PyStr(<<"a">>), "Project__Name", PyStr(<<"P">>),
                     "name", PyStr(<<"G", "a", "p">>)), PyNone),
       \* 5: no project and geometry null
       Feature(Dict2("owner", PyStr(<<"a">>), "name", PyStr(<<"L", "o", "s", "t">>)),
               PyNone),
       \* 6: properties null
       Feature(PyNone, Square(20, 22)),
       \* 7: name null
       Feature(Dict3("owner", PyStr(<<"a">>), "project", PyStr(<<"P">>),
                     "name", PyNone), Square(20, 22)),
       \* 8: an owner that holds "::", no project, no name
       Feature(Dict2("OWNER", PyStr(<<"b", ":", ":", "c">>), "project", PyStr(<<>>)),
               Square(12, 13)),
       \* 9: no properties key, a bow tie that make_valid repairs
       [geometry |-> BowTie],
       \* 10: another owner and project, geometry that shape() rejects
       Feature(Dict3("owner", PyStr(<<" ", "b", " ">>), "Project__Name", PyStr(<<"Q">>),
                     "name", PyStr(<<"H", "o", "u", "s", "e">>)), Undecodable),
       \* 11: a label that holds "house", in the group of feature 10
       Feature(Dict3("owner", PyStr(<<"b">>), "Project__Name", PyStr(<<"Q">>),
                     "name", PyStr(<<"F", "a", "r", "m", "h", "o", "u", "s", "e">>)),
               Square(25, 27)),
       \* 12: a label that holds "building" in capitals, in the group of feature 1
       Feature(Dict3("owner", PyStr(<<"a">>), "Project__Name", PyStr(<<"P">>),
                     "name", PyStr(<<"O", "U", "T", "B", "U", "I", "L", "D", "I", "N", "G">>)),
               Square(31, 36)) >>

\* Four groups whose geodesic sums each round down by 0.004 m2, and a second
\* parcel of the first group
AreaPool ==
    << Feature(Dict2("owner", PyStr(<<"a">>), "project", PyStr(<<"P">>)), Square(3, 4)),
       Feature(Dict2("owner", PyStr(<<"a">>), "project", PyStr(<<"Q">>)), Square(3, 4)),
       Feature(Dict2("owner", PyStr(<<"b">>), "project", PyStr(<<"P">>)), Square(3, 4)),
       Feature(Dict2("owner", PyStr(<<"b">>), "project", PyStr(<<"Q">>)), Square(3, 4)),
       Feature(Dict2("owner", PyStr(<<"a">>), "project", PyStr(<<"P">>)), Square(9, 40)) >>

\* Geometries that are neither Polygon nor MultiPolygon: a point, a line, and
\* the collection of a polygon and a line that make_valid returns for a
\* polygon with a spike
Point == GeoJSON("Point", "valid", 0, <<>>, NoMsg)
LineString == GeoJSON("LineString", "valid", 0, <<>>, NoMsg)
GeometryCollection ==
    GeoJSON("GeometryCollection", "repairable", 50,
            <<[exterior |-> 57, interiors |-> <<>>]>>, NoMsg)

\* Features at the edges of the input: geometry types, owner and project
\* values
EdgePool ==
    << \* 1: a point
       Feature(Dict3("owner", PyStr(<<"a">>), "project", PyStr(<<"P">>),
                     "name", PyStr(<<"W", "e", "l", "l">>)), Point),
       \* 2: a line, without project
       Feature(Dict2("owner", PyStr(<<"a">>),
                     "name", PyStr(<<"F", "e", "n", "c", "e">>)), LineString),
       \* 3: a geometry collection out of make_valid
       Feature(Dict3("owner", PyStr(<<"a">>), "project", PyStr(<<"P">>),
                     "name", PyStr(<<"S", "p", "i", "k", "e">>)), GeometryCollection),
       \* 4: a polygon
       Feature(Dict3("owner", PyStr(<<"a">>), "project", PyStr(<<"P">>),
                     "name", PyStr(<<"E", "a", "s", "t">>)), Square(21, 23)),
       \* 5: an owner written with spaces around it
       Feature(Dict3("owner", PyStr(<<" ", "b", " ">>), "project", PyStr(<<"Q">>),
                     "name", PyStr(<<"P", "o", "n", "d">>)), Square(26, 28)),
       \* 6: the first owner key and the first project key hold empty strings
       Feature(Dict4("owner", PyStr(<<>>), "Owner", PyStr(<<"c">>),
                     "Project__Name", PyStr(<<>>), "project", PyStr(<<"Q">>)),
               Square(32, 34)),
       \* 7: an owner of spaces only, before a second owner key
       Feature(Dict3("owner", PyStr(<<" ", " ">>), "OWNER", PyStr(<<"d">>),
                     "project", PyStr(<<"P">>)), Square(37, 39)),
       \* 8: a project of spaces only, before a second project key
       Feature(Dict3("owner", PyStr(<<"a">>), "Project__Name", PyStr(<<" ">>),
                     "project_name", PyStr(<<"R">>)), Square(41, 43)),
       \* 9: an owner that holds "::"
       Feature(Dict2("owner", PyStr(<<"b", ":", ":", "c">>), "project", PyStr(<<"P">>)),
               Square(47, 49)),
       \* 10: a project that holds "::", with the key of feature 9
       Feature(Dict2("owner", PyStr(<<"b">>),
                     "project", PyStr(<<"c", ":", ":", "P">>)), Square(51, 53)),
       \* 11: a project with the name of the bucket
       Feature(Dict3("owner", PyStr(<<"a">>), "project", PyStr(InvalidPaddocks),
                     "name", PyStr(<<"B", "a", "c", "k">>)), Square(55, 58)) >>

\* fs is a list of at most max features of pool
IsBatch(fs, pool, max) ==
    \E n \in 0..max : \E idx \in [1..n -> DOMAIN pool] :
        fs = [k \in 1..n |-> pool[idx[k]]]

---------------------------------------------------------------------------
(* The handler as a state machine: upload from line 150 on *)

InitLocals ==
    /\ i = 1
    /\ projects = <<>>
    /\ total_invalid = 0
    /\ total_planar = 0
    /\ total_geodesic = 0
    /\ normalized_features = <<>>
    /\ project_list = <<>>
    /\ response = PyNone
    /\ raised = "none"
    /\ validations = [k \in DOMAIN features |-> 0]
    /\ pc = IF features = <<>> THEN "build" ELSE "loop"

\* The locals of an invocation on the batch fs, at line 168
Invocation(fs) ==
    [features |-> fs, i |-> 1, projects |-> <<>>, total_invalid |-> 0,
     total_planar |-> 0, total_geodesic |-> 0, normalized_features |-> <<>>,
     project_list |-> <<>>, response |-> PyNone, raised |-> "none",
     pc |-> IF fs = <<>> THEN "build" ELSE "loop"]

\* no second invocation
NoInvocation == [Invocation(<<>>) EXCEPT !.pc = "none"]

Init ==
    /\ IsBatch(features, Pool, MaxFeatures)
    /\ InitLocals
    /\ other = NoInvocation

InitArea ==
    /\ IsBatch(features, AreaPool, MaxAreaFeatures)
    /\ InitLocals
    /\ other = NoInvocation

InitEdge ==
    /\ IsBatch(features, EdgePool, MaxFeatures)
    /\ InitLocals
    /\ other = NoInvocation

\* the locals after an iteration that ends in st
After(st) ==
    IF st.error # "none"
    THEN \* the exception leaves upload; its locals die with the frame
         /\ pc' = "raised"
         /\ raised' = st.error
         /\ UNCHANGED <<i, projects, total_invalid, total_planar,
                        total_geodesic, normalized_features>>
    ELSE /\ projects' = st.projects
         /\ total_invalid' = st.total_invalid
         /\ total_planar' = st.total_planar
         /\ total_geodesic' = st.total_geodesic
         /\ normalized_features' = st.normalized_features
         /\ i' = i + 1
         /\ pc' = IF i + 1 > Len(features) THEN "build" ELSE "loop"
         /\ UNCHANGED raised

\* for feature in features: one iteration
ProcessFeature ==
    /\ pc = "loop"
    /\ After(LoopBody(Locals, features[i]))
    /\ validations' = [validations EXCEPT ![i] = @ + ValidationCalls(features[i])]
    /\ UNCHANGED <<features, project_list, response, other>>

\* for project_key, data in projects.items(): ... project_list.append(...)
BuildProjectList ==
    /\ pc = "build"
    /\ project_list' = BuildList(projects)
    /\ pc' = "sort"
    /\ UNCHANGED <<features, i, projects, total_invalid, total_planar,
                   total_geodesic, normalized_features, response, raised,
                   validations, other>>

\* project_list.sort(key=lambda p: (p.owner, p.project_name))
SortProjectList ==
    /\ pc = "sort"
    /\ IF \E n \in DOMAIN project_list : SortKeyRaises(project_list[n])
       THEN pc' = "raised" /\ raised' = "AttributeError" /\ UNCHANGED project_list
       ELSE pc' = "respond" /\ project_list' = SortedList(project_list) /\ UNCHANGED raised
    /\ UNCHANGED <<features, i, projects, total_invalid, total_planar,
                   total_geodesic, normalized_features, response, validations,
                   other>>

\* return UploadResponse(...)
Respond ==
    /\ pc = "respond"
    /\ response' =
         [summary |-> SummaryOf(features, project_list, total_invalid,
                                total_planar, total_geodesic),
          projects |-> project_list,
          normalized_geojson |->
              [type |-> "FeatureCollection", features |-> normalized_features]]
    /\ pc' = "done"
    /\ UNCHANGED <<features, i, projects, total_invalid, total_planar,
                   total_geodesic, normalized_features, project_list, raised,
                   validations, other>>

Next == ProcessFeature \/ BuildProjectList \/ SortProjectList \/ Respond

Spec == Init /\ [][Next]_vars

SpecArea == InitArea /\ [][Next]_vars

SpecEdge == InitEdge /\ [][Next]_vars

---------------------------------------------------------------------------
(* What the properties below read *)

\* the loop has run over every feature without raising
LoopDone == i > Len(features)

\* project_list has been built from the accumulators
Built == LoopDone /\ pc # "build"

\* the UploadSummary the return statement computes from the final locals
ComputedSummary ==
    SummaryOf(features, project_list, total_invalid, total_planar, total_geodesic)

RECURSIVE SumSeq(_)
SumSeq(s) == IF s = <<>> THEN 0 ELSE Head(s) + SumSeq(Tail(s))

\* The input as the specification reads it, without the handler's helpers
PropsOf(f) ==
    IF "properties" \in DOMAIN f /\ f.properties.t = "dict" THEN f.properties.v ELSE <<>>
Missing(p, k) == k \notin DOMAIN p \/ p[k].t = "none" \/ p[k] = PyStr(<<>>)
HasNoProject(f) ==
    \A k \in {"Project__Name", "project_name", "project"} : Missing(PropsOf(f), k)
GeometryNull(f) == "geometry" \notin DOMAIN f \/ f.geometry.t = "none"
GeometryOk(f) == ~GeometryNull(f) /\ f.geometry.cond \in {"valid", "repairable"}
LabelOf(f) == IF "name" \in DOMAIN PropsOf(f) THEN PropsOf(f).name ELSE PyStr(Unnamed)

\* the features the loop has processed so far
Processed == 1..(i - 1)

\* the group a processed feature is to be listed in
BucketKey(f) == ProjectKey(extract_owner(f), InvalidPaddocks)
RoutedKey(f) ==
    IF HasNoProject(f) \/ ~GeometryOk(f)
    THEN BucketKey(f)
    ELSE ProjectKey(extract_owner(f), extract_project_name(f).v)

RowsOf(d, key) == IF HasKey(d, key) THEN Entry(d, key).paddocks ELSE <<>>
LastRow(d, key) == RowsOf(d, key)[Len(RowsOf(d, key))]
TotalRows(d) == SumSeq([n \in DOMAIN d |-> Len(d[n].data.paddocks)])

---------------------------------------------------------------------------
(* C1 *)

\* C1: for every batch, the summary's total_paddocks equals the sum of
\* paddock_count over all group summaries.
C1_TotalIsSumOfGroupCounts ==
    Built => ComputedSummary.total_paddocks
                = SumSeq([n \in DOMAIN project_list |-> project_list[n].paddock_count])

---------------------------------------------------------------------------
(* C2 *)

---------------------------------------------------------------------------
(* C3 *)

\* C3: for every group in the output, paddock_count equals the number of
\* rows in the group's paddocks list.
C3_CountIsNumberOfRows ==
    Built => \A n \in DOMAIN project_list :
                project_list[n].paddock_count = Len(project_list[n].paddocks)

---------------------------------------------------------------------------
(* C4 *)

AreaFigures(row) ==
    <<row.area_ha, row.area_ac, row.area_planar_m2, row.area_geodesic_m2,
      row.difference_percent>>

---------------------------------------------------------------------------
(* C5 *)

EndsWith(s, suffix) ==
    Len(s) >= Len(suffix) /\ SubSeq(s, Len(s) - Len(suffix) + 1, Len(s)) = suffix

\* an upload of one feature that has no project name and a valid geometry
C5_Case ==
    /\ Built
    /\ Len(features) = 1
    /\ HasNoProject(features[1])
    /\ GeometryOk(features[1])

---------------------------------------------------------------------------
(* C6 *)

HasProjectAndArea(f) == GeometryOk(f) /\ ~HasNoProject(f)

\* the processed features that have a valid or repaired geometry, and those
\* that have a project as well
WithArea == {k \in Processed : GeometryOk(features[k])}
WithProjectAndArea == {k \in Processed : HasProjectAndArea(features[k])}

\* the unrounded areas of the processed features numbered in kept
PlanarSum(kept) ==
    SumSeq([k \in Processed |->
              IF k \in kept
              THEN get_feature_area(features[k]).area_planar_m2 ELSE 0])
GeodesicSum(kept) ==
    SumSeq([k \in Processed |->
              IF k \in kept
              THEN get_feature_area(features[k]).area_geodesic_m2 ELSE 0])

\* the running sums of every group and of the batch are the areas of the
\* processed features numbered in counted, each added to the group it is
\* routed to
SumsAccountFor(counted) ==
    /\ total_planar = PlanarSum(counted)
    /\ total_geodesic = GeodesicSum(counted)
    /\ \A n \in DOMAIN projects :
          LET InGroup == {k \in counted : RoutedKey(features[k]) = projects[n].key} IN
          /\ projects[n].data.area_planar_m2 = PlanarSum(InGroup)
          /\ projects[n].data.area_geodesic_m2 = GeodesicSum(InGroup)

\* C6 as claimed: whenever area is available for a routed feature, its
\* unrounded planar and geodesic areas are added to the running sums of its
\* group and of the batch, also when it is routed to "Invalid Paddocks" for
\* lack of a project.
C6_AreasOfEveryFeatureAdded == SumsAccountFor(WithArea)

\* C6 as amended: the unrounded areas are added to the sums of the group and
\* of the batch for every feature that has a project and a valid (or
\* repaired) geometry; the areas of a feature routed to "Invalid Paddocks"
\* for lack of a project are shown in its row and added to no sum.
C6_AreasOfProjectFeaturesAdded == SumsAccountFor(WithProjectAndArea)

\* a finished batch with areas summed and a feature without project whose
\* geometry is valid
C6_Witness ==
    /\ LoopDone
    /\ total_geodesic > 0
    /\ \E a, b \in DOMAIN features :
          /\ HasNoProject(features[a]) /\ GeometryOk(features[a])
          /\ HasProjectAndArea(features[b])

---------------------------------------------------------------------------
(* C7 *)

\* reported batch geodesic total minus the sum of the reported group
\* figures, in hundredths of a square metre
GeodesicGap ==
    ComputedSummary.total_area_geodesic_m2
      - SumSeq([n \in DOMAIN project_list |-> project_list[n].area_geodesic_m2])

\* C7 as claimed: the reported total_area_geodesic_m2 equals the sum of the
\* groups' reported area_geodesic_m2 within 0.01 m2, for any number of groups.
C7_TotalWithinOneHundredth == Built => Abs(GeodesicGap) <= 1

\* C7 as amended: the two differ by at most 0.005 m2 for every rounded figure,
\* that is 0.005 m2 * (number of groups + 1); the tolerance of 0.01 m2 holds
\* for at most two groups.
C7_TotalWithinHalfHundredthPerFigure ==
    Built => /\ 2 * Abs(GeodesicGap) <= Len(project_list) + 1
             /\ Len(project_list) <= 2 => Abs(GeodesicGap) <= 1

\* four groups whose reported figures sum to 0.02 m2 less than the total
C7_Witness == Built /\ Len(project_list) = 4 /\ Abs(GeodesicGap) = 2

---------------------------------------------------------------------------
(* C8 *)

\* C8: a single malformed feature never aborts the batch: no exception leaves
\* the loop over the features, and once the loop is over there is one
\* normalized feature and one report row for every input feature.
C8_NoFeatureAbortsTheBatch ==
    /\ pc = "raised" => LoopDone
    /\ LoopDone => /\ Len(normalized_features) = Len(features)
                   /\ TotalRows(projects) = Len(features)

---------------------------------------------------------------------------
(* C9 *)

\* the feature processed last has a null geometry
C9_Case == i > 1 /\ GeometryNull(features[i - 1])

MissingGeometryOutcome(f) ==
    validate_and_repair_geometry(f) = [geom |-> PyNone, error |-> PyStr(MissingGeometry)]

\* C9 as claimed: a feature whose geometry is null yields (no geometry,
\* "Missing geometry") and is listed in its owner's "Invalid Paddocks" group
\* with a note that contains "Missing geometry".
C9_NoteSaysMissingGeometry ==
    C9_Case =>
      /\ MissingGeometryOutcome(features[i - 1])
      /\ Contains(LastRow(projects, BucketKey(features[i - 1])).note.v, MissingGeometry)

\* C9 as amended: such a feature yields (no geometry, "Missing geometry") and
\* is listed in its owner's "Invalid Paddocks" group; its note contains
\* "Missing geometry" when the feature has a project, and is
\* "No project assigned" when it has none.
C9_NoteSaysMissingGeometryUnlessNoProject ==
    C9_Case =>
      LET f == features[i - 1]
          row == LastRow(projects, BucketKey(f))
      IN  /\ MissingGeometryOutcome(f)
          /\ row.name = LabelOf(f).v
          /\ \A k \in 1..5 : AreaFigures(row)[k] = PyNone
          /\ IF HasNoProject(f)
             THEN row.note = PyStr(NoProjectAssigned)
             ELSE Contains(row.note.v, MissingGeometry)

\* a finished batch with a null geometry under a project and one under none
C9_Witness ==
    /\ LoopDone
    /\ \E a, b \in DOMAIN features :
          /\ GeometryNull(features[a]) /\ ~HasNoProject(features[a])
          /\ GeometryNull(features[b]) /\ HasNoProject(features[b])

---------------------------------------------------------------------------
(* C10 *)

\* the lowercased label contains "shed", "house" or "building"
InfrastructureLabel(f) ==
    \E k \in DOMAIN InfrastructureKeywords :
        Contains(Lower(LabelOf(f).v), InfrastructureKeywords[k])

ProductiveWithArea(f) == HasProjectAndArea(f) /\ ~InfrastructureLabel(f)

\* C10: valid_paddocks of a group counts exactly its features with a project
\* and a valid geometry whose lowercased label contains none of "shed",
\* "house", "building"; an infrastructure feature with a project and a valid
\* geometry adds nothing to valid_paddocks, its areas are still added to the
\* sums of the group and of the batch, and its row is still listed.
C10_InfrastructureNotCountedValid ==
    /\ \A n \in DOMAIN projects :
          projects[n].data.valid_paddocks
            = Cardinality({k \in Processed :
                             /\ ProductiveWithArea(features[k])
                             /\ RoutedKey(features[k]) = projects[n].key})
    /\ \A k \in Processed :
          (HasProjectAndArea(features[k]) /\ InfrastructureLabel(features[k])) =>
            LET f == features[k]
                data == Entry(projects, RoutedKey(f))
                area_info == get_feature_area(f)
                IsGroupMate == {g \in WithProjectAndArea :
                                  RoutedKey(features[g]) = RoutedKey(f)}
            IN  /\ \E r \in DOMAIN data.paddocks :
                      /\ data.paddocks[r].name = LabelOf(f).v
                      /\ data.paddocks[r].area_geodesic_m2
                            = PyNum(Round2(area_info.area_geodesic_m2))
                /\ data.area_planar_m2 = PlanarSum(IsGroupMate)
                /\ data.area_geodesic_m2 = GeodesicSum(IsGroupMate)
                /\ total_planar >= area_info.area_planar_m2
                /\ total_geodesic = GeodesicSum(WithProjectAndArea)

\* a finished batch with an infrastructure parcel and a productive paddock in
\* one group
C10_Witness ==
    /\ LoopDone
    /\ \E a, b \in DOMAIN features :
          /\ HasProjectAndArea(features[a]) /\ InfrastructureLabel(features[a])
          /\ ProductiveWithArea(features[b])
          /\ RoutedKey(features[a]) = RoutedKey(features[b])

---------------------------------------------------------------------------
(* C11 *)

\* the sort statement has run on the groups of a non-empty batch
Sorted == LoopDone /\ features # <<>> /\ pc \notin {"build", "sort"}

\* C11: for a non-empty batch, finalization returns the group list sorted
\* ascending by (owner, project_name), both read from the fields of each
\* group summary: the sort statement raises nothing, every summary has the
\* two fields, and no summary precedes one with a smaller key.
C11_GroupListSorted ==
    Sorted =>
      /\ pc # "raised"
      /\ \A n \in DOMAIN project_list :
            {"owner", "project_name"} \subseteq DOMAIN project_list[n]
      /\ \A m, n \in DOMAIN project_list :
            m < n => ~KeyLess(SortKey(project_list[n]), SortKey(project_list[m]))

---------------------------------------------------------------------------
(* C12 *)

\* the processed features listed in the group of key, in input order
RoutedTo(key) ==
    SelectSeq([k \in Processed |-> k], LAMBDA k : RoutedKey(features[k]) = key)

\* what identifies the normalized feature of f: its geometry, repaired when
\* it was repaired, its label and its validity flag
NormalizedOf(f, nf) ==
    /\ nf.geometry = (IF GeometryOk(f) THEN [f.geometry EXCEPT !.cond = "valid"]
                      ELSE Get(f, "geometry"))
    /\ Get(nf.properties, "paddock_type") = LabelOf(f)
    /\ Get(nf.properties, "geometry_valid") = PyBool(GeometryOk(f))

\* C12: input order is preserved: the rows of every group are the rows of the
\* features listed in it, in the order of these features in the input, and
\* the normalized feature list holds one normalized feature for each
\* processed feature, in input order.
C12_InputOrderPreserved ==
    /\ \A n \in DOMAIN projects :
          LET rows == projects[n].data.paddocks
              from == RoutedTo(projects[n].key)
          IN  /\ Len(rows) = Len(from)
              /\ \A r \in DOMAIN rows : rows[r].name = LabelOf(features[from[r]]).v
    /\ Len(normalized_features) = i - 1
    /\ \A k \in Processed : NormalizedOf(features[k], normalized_features[k])

\* a finished batch of three different features, two of one group with a
\* feature of another group between them
C12_Witness ==
    /\ LoopDone
    /\ Len(features) = 3
    /\ RoutedKey(features[1]) = RoutedKey(features[3])
    /\ RoutedKey(features[1]) # RoutedKey(features[2])
    /\ LabelOf(features[1]) # LabelOf(features[3])
    /\ HasProjectAndArea(features[1]) /\ HasProjectAndArea(features[3])

---------------------------------------------------------------------------
(* C13 *)

\* C13: while a batch is processed, geometry validation and repair is
\* attempted exactly once for each feature the loop has processed, and at
\* most once for any feature.
C13_ValidatedOnce ==
    /\ \A k \in Processed : validations[k] = 1
    /\ \A k \in DOMAIN features : validations[k] <= 1

---------------------------------------------------------------------------
(* C14 *)

\* a geometry that decodes, or is repaired, to a type other than Polygon and
\* MultiPolygon
Unsupported(f) == GeometryOk(f) /\ f.geometry.type \notin {"Polygon", "MultiPolygon"}

\* C14: a geometry that is neither a Polygon nor a MultiPolygon is a valid
\* result of area zero, not an error: its normalized feature is flagged
\* valid and shows 0.0 for the planar and for the geodesic area, and it adds
\* nothing to the planar and to the geodesic totals.
C14_UnsupportedTypesCountZero ==
    /\ \A k \in Processed :
          Unsupported(features[k]) =>
            LET props == normalized_features[k].properties IN
            /\ Get(props, "geometry_valid") = PyBool(TRUE)
            /\ Get(props, "area_planar_m2") = PyNum(0)
            /\ Get(props, "area_geodesic_m2") = PyNum(0)
    /\ total_planar
         = PlanarSum({k \in WithProjectAndArea : ~Unsupported(features[k])})
    /\ total_geodesic
         = GeodesicSum({k \in WithProjectAndArea : ~Unsupported(features[k])})

---------------------------------------------------------------------------
(* C15 *)

\* the keys create_normalized_feature computes for a valid outcome
ComputedKeys ==
    {"area_planar_m2", "area_geodesic_m2", "area_m2", "area_ha", "area_ac",
     "difference_m2", "difference_percent", "geometry_valid"}

\* the keys upload sets on every normalized feature
TaggedKeys == {"paddock_type", "owner", "is_invalid"}

\* outside keys, the properties props are the original properties of f
FrameOutside(f, props, keys) ==
    /\ DOMAIN props \ keys = DOMAIN PropsOf(f) \ keys
    /\ \A key \in DOMAIN PropsOf(f) \ keys : props[key] = PropsOf(f)[key]

\* C15 as claimed: in the normalized feature of a valid outcome, every
\* original property key keeps its value except for the listed computed
\* keys; no other key is added or overwritten in the feature returned.
C15_OnlyComputedKeysChange ==
    \A k \in Processed :
        GeometryOk(features[k]) =>
          /\ FrameOutside(features[k], normalized_features[k].properties, ComputedKeys)
          /\ ComputedKeys \subseteq DOMAIN normalized_features[k].properties

\* C15 as amended: in the feature create_normalized_feature returns for a
\* valid outcome, every original property key keeps its value except for the
\* listed computed keys; upload then sets three more keys on it: paddock_type
\* (the label), owner (the derived owner, which overwrites an original owner
\* value) and is_invalid (whether the feature has no project); no other key
\* is added or overwritten in the feature of the response.
C15_OnlyComputedAndTaggedKeysChange ==
    \A k \in Processed :
        GeometryOk(features[k]) =>
          LET f == features[k]
              props == normalized_features[k].properties
          IN  /\ FrameOutside(f, create_normalized_feature(f, get_feature_area(f)).properties,
                               ComputedKeys)
              /\ FrameOutside(f, props, ComputedKeys \cup TaggedKeys)
              /\ ComputedKeys \cup TaggedKeys \subseteq DOMAIN props
              /\ props["paddock_type"] = LabelOf(f)
              /\ props["owner"] = PyStr(extract_owner(f))
              /\ props["is_invalid"] = PyBool(HasNoProject(f))
              /\ props["geometry_valid"] = PyBool(TRUE)

\* a processed feature with a valid geometry whose original owner value is
\* not the derived owner, and that has original keys besides
C15_Witness ==
    /\ LoopDone
    /\ \E k \in Processed :
          /\ GeometryOk(features[k])
          /\ "owner" \in DOMAIN PropsOf(features[k])
          /\ PropsOf(features[k])["owner"] # PyStr(extract_owner(features[k]))
          /\ "name" \in DOMAIN PropsOf(features[k])

---------------------------------------------------------------------------
(* C16 *)

\* a value that is a string with something else than white space in it
NonEmpty(v) == v.t = "str" /\ Strip(v.v) # <<>>

\* the first of keys under which p holds a non-empty value, 0 if there is none
FirstNonEmpty(p, keys) ==
    IF \E n \in DOMAIN keys : keys[n] \in DOMAIN p /\ NonEmpty(p[keys[n]])
    THEN CHOOSE n \in DOMAIN keys :
            /\ keys[n] \in DOMAIN p /\ NonEmpty(p[keys[n]])
            /\ \A m \in 1..(n - 1) : ~(keys[m] \in DOMAIN p /\ NonEmpty(p[keys[m]]))
    ELSE 0

OwnerKeys == <<"owner", "Owner", "OWNER">>

\* the owner as the claim derives it, without the white space around it
OwnerAsClaimed(f) ==
    LET n == FirstNonEmpty(PropsOf(f), OwnerKeys) IN
    IF n = 0 THEN Unknown ELSE Strip(PropsOf(f)[OwnerKeys[n]].v)

\* C16: the derived owner of a feature is the first non-empty value among
\* the keys owner, Owner, OWNER, in that order, and "Unknown" when none of
\* them holds a non-empty value, where an empty value, a value of white
\* space only and null properties all count as no value; this is the owner
\* that extract_owner returns and that upload writes on the normalized
\* feature.
C16_OwnerIsFirstNonEmpty ==
    \A k \in Processed :
        /\ extract_owner(features[k]) = OwnerAsClaimed(features[k])
        /\ normalized_features[k].properties["owner"] = PyStr(OwnerAsClaimed(features[k]))

---------------------------------------------------------------------------
(* C17 *)

ProjectKeys == <<"Project__Name", "project_name", "project">>

\* the project as the claim derives it, without the white space around it,
\* None when no key holds a non-empty value
ProjectAsClaimed(f) ==
    LET n == FirstNonEmpty(PropsOf(f), ProjectKeys) IN
    IF n = 0 THEN PyNone ELSE PyStr(Strip(PropsOf(f)[ProjectKeys[n]].v))

\* C17: the derived project of a feature is the first non-empty value among
\* the keys Project__Name, project_name, project, in that order; a feature
\* for which every one of them is missing, empty or null has no project, and
\* no feature is placed in a group with an empty project label.
C17_ProjectIsFirstNonEmpty ==
    /\ \A k \in Processed :
          extract_project_name(features[k]) = ProjectAsClaimed(features[k])
    /\ \A n \in DOMAIN projects : ~EndsWith(projects[n].key, Sep)

---------------------------------------------------------------------------
(* Two invocations of upload: every call has its own locals (main.py:150-166);
   the module globals app and WGS84 are only read by the handler *)

MaxConcurrentFeatures == 2

\* a paddock of a project, a feature whose geometry is null, and a feature
\* whose name is null, on which the loop raises
ConcurrentPool == <<Pool[1], Pool[4], Pool[7]>>

\* Mutant: the second invocation accumulates into the defaultdict of the first
OtherLocals_Shared ==
    [projects |-> projects, total_invalid |-> other.total_invalid,
     total_planar |-> other.total_planar, total_geodesic |-> other.total_geodesic,
     normalized_features |-> other.normalized_features, error |-> "none"]

\* The locals of the second invocation that its loop body reads and writes
OtherLocals ==
    [projects |-> other.projects, total_invalid |-> other.total_invalid,
     total_planar |-> other.total_planar, total_geodesic |-> other.total_geodesic,
     normalized_features |-> other.normalized_features, error |-> "none"]

\* the variables of the first invocation
own == <<features, i, projects, total_invalid, total_planar, total_geodesic,
         normalized_features, project_list, response, raised, validations, pc>>

\* UploadResponse(summary=..., projects=..., normalized_geojson=...)
UploadResponse(fs, list, invalid, planar, geodesic, normalized) ==
    [summary |-> SummaryOf(fs, list, invalid, planar, geodesic),
     projects |-> list,
     normalized_geojson |-> [type |-> "FeatureCollection", features |-> normalized]]

InitTwo ==
    /\ IsBatch(features, ConcurrentPool, MaxConcurrentFeatures)
    /\ InitLocals
    /\ \E n \in 0..MaxConcurrentFeatures : \E idx \in [1..n -> DOMAIN ConcurrentPool] :
          other = Invocation([k \in 1..n |-> ConcurrentPool[idx[k]]])

\* the locals of the second invocation after an iteration that ends in st
OtherAfter(st) ==
    IF st.error # "none"
    THEN [other EXCEPT !.pc = "raised", !.raised = st.error]
    ELSE [other EXCEPT
            !.projects = st.projects,
            !.total_invalid = st.total_invalid,
            !.total_planar = st.total_planar,
            !.total_geodesic = st.total_geodesic,
            !.normalized_features = st.normalized_features,
            !.i = @ + 1,
            !.pc = IF other.i + 1 > Len(other.features) THEN "build" ELSE "loop"]

\* the second invocation: one iteration of its loop
OtherProcessFeature ==
    /\ other.pc = "loop"
    /\ other' = OtherAfter(LoopBody(OtherLocals, other.features[other.i]))
    /\ UNCHANGED own

\* the second invocation: build project_list
OtherBuildProjectList ==
    /\ other.pc = "build"
    /\ other' = [other EXCEPT !.project_list = BuildList(other.projects), !.pc = "sort"]
    /\ UNCHANGED own

\* the second invocation: project_list.sort
OtherSortProjectList ==
    /\ other.pc = "sort"
    /\ other' =
         IF \E n \in DOMAIN other.project_list : SortKeyRaises(other.project_list[n])
         THEN [other EXCEPT !.pc = "raised", !.raised = "AttributeError"]
         ELSE [other EXCEPT !.pc = "respond",
                            !.project_list = SortedList(other.project_list)]
    /\ UNCHANGED own

\* the second invocation: return UploadResponse(...)
OtherRespond ==
    /\ other.pc = "respond"
    /\ other' =
         [other EXCEPT
            !.response = UploadResponse(other.features, other.project_list,
                             other.total_invalid, other.total_planar,
                             other.total_geodesic, other.normalized_features),
            !.pc = "done"]
    /\ UNCHANGED own

NextTwo ==
    \/ ProcessFeature \/ BuildProjectList \/ SortProjectList \/ Respond
    \/ OtherProcessFeature \/ OtherBuildProjectList \/ OtherSortProjectList
    \/ OtherRespond

SpecTwo == InitTwo /\ [][NextTwo]_vars

---------------------------------------------------------------------------
(* C18 *)

\* the loop of upload run from feature k on, without interruption: the
\* locals and the position at which it ends or raises
RECURSIVE LoopFrom(_, _, _)
LoopFrom(st, fs, k) ==
    IF k > Len(fs) THEN [st |-> st, i |-> k]
    ELSE LET after == LoopBody(st, fs[k]) IN
         IF after.error # "none" THEN [st |-> after, i |-> k]
         ELSE LoopFrom(after, fs, k + 1)

\* the invocation inv with the locals st of its loop, at feature k
WithLocals(inv, st, k) ==
    [inv EXCEPT !.i = k,
                !.projects = st.projects,
                !.total_invalid = st.total_invalid,
                !.total_planar = st.total_planar,
                !.total_geodesic = st.total_geodesic,
                !.normalized_features = st.normalized_features]

\* the finalization of upload on the locals st of a finished loop
Finalize(inv, st) ==
    LET list == BuildList(st.projects)
        done == [WithLocals(inv, st, Len(inv.features) + 1) EXCEPT !.project_list = list]
    IN  IF \E n \in DOMAIN list : SortKeyRaises(list[n])
        THEN [done EXCEPT !.raised = "AttributeError", !.pc = "raised"]
        ELSE [done EXCEPT
                !.project_list = SortedList(list),
                !.response = UploadResponse(inv.features, SortedList(list),
                                 st.total_invalid, st.total_planar,
                                 st.total_geodesic, st.normalized_features),
                !.pc = "done"]

\* upload run alone on the batch fs: its locals when it returns or raises
RunAlone(fs) ==
    LET inv == Invocation(fs)
        loop == LoopFrom([projects |-> <<>>, total_invalid |-> 0, total_planar |-> 0,
                          total_geodesic |-> 0, normalized_features |-> <<>>,
                          error |-> "none"], fs, 1)
    IN  IF loop.st.error # "none"
        THEN [WithLocals(inv, loop.st, loop.i) EXCEPT
                 !.raised = loop.st.error, !.pc = "raised"]
        ELSE Finalize(inv, loop.st)

\* the locals of the first invocation, as a record
First ==
    [features |-> features, i |-> i, projects |-> projects,
     total_invalid |-> total_invalid, total_planar |-> total_planar,
     total_geodesic |-> total_geodesic, normalized_features |-> normalized_features,
     project_list |-> project_list, response |-> response, raised |-> raised,
     pc |-> pc]

\* the invocation has returned or raised
Finished(inv) == inv.pc \in {"done", "raised"}

\* what the invocation hands to its caller: the response or the exception,
\* with the lists and sums it was computed from
Result(inv) ==
    [response |-> inv.response, raised |-> inv.raised,
     project_list |-> inv.project_list,
     normalized_features |-> inv.normalized_features,
     totals |-> <<inv.total_invalid, inv.total_planar, inv.total_geodesic>>]

\* C18: two invocations of upload that run interleaved at any point share
\* no mutable state: each one ends with exactly the result, response or
\* exception, that it ends with when run alone on its own batch.
C18_InvocationsAreIndependent ==
    /\ Finished(First) => Result(First) = Result(RunAlone(features))
    /\ Finished(other) => Result(other) = Result(RunAlone(other.features))

\* the second invocation has finished a batch of two features, with a group
\* to report, while the first, on another batch, is in the middle of its loop
C18_Witness ==
    /\ Finished(other) /\ Len(other.features) = 2 /\ other.project_list # <<>>
    /\ pc = "loop" /\ i = 2
    /\ features # other.features

---------------------------------------------------------------------------
(* C19 *)

\* Areas are counted in 0.001 m2 and reported figures in hundredths: a
\* fraction n / d below is the figure in hundredths before it is rounded
\* (hectares: m2 / 10000; acres: m2 * 0.000247105 = m2 * 49421 / 200000000)

\* the summary of the group accumulated under projects[n]
GroupSummaryOf(n) ==
    CHOOSE p \in {project_list[m] : m \in DOMAIN project_list} :
        /\ p.project_name = SplitOnce(projects[n].key)[2]
        /\ p.paddocks = projects[n].data.paddocks
        /\ p.paddock_count = projects[n].data.paddock_count

\* C19: at finalization the difference_m2 of every group is its accumulated
\* geodesic sum minus its accumulated planar sum, its difference_percent is
\* difference / planar * 100, and 0 when the planar sum is 0, its hectares
\* and acres are geodesic sum / 10000 and geodesic sum * 0.000247105, each
\* reported rounded to 2 decimals; the difference fields of the batch
\* summary are derived the same way from the grand totals.
C19_DerivedFields ==
    Built =>
      /\ Len(project_list) = Len(projects)
      /\ \A n \in DOMAIN projects :
            LET planar == projects[n].data.area_planar_m2
                geodesic == projects[n].data.area_geodesic_m2
                p == GroupSummaryOf(n)
            IN  /\ p.difference_m2 = Round2(geodesic - planar)
                /\ p.difference_percent
                     = (IF planar = 0 THEN 0
                        ELSE Round2Frac([n |-> (geodesic - planar) * 10000, d |-> planar]))
                /\ p.area_ha = Round2Frac([n |-> geodesic, d |-> 100000])
                /\ p.area_ac = Round2Frac([n |-> geodesic * 49421, d |-> 2000000000])
                /\ p.area_geodesic_m2 = Round2(geodesic) /\ p.area_m2 = Round2(geodesic)
                /\ p.area_planar_m2 = Round2(planar)
      /\ ComputedSummary.total_difference_m2 = Round2(total_geodesic - total_planar)
      /\ ComputedSummary.total_difference_percent
           = (IF total_planar = 0 THEN 0
              ELSE Round2Frac([n |-> (total_geodesic - total_planar) * 10000,
                               d |-> total_planar]))

\* a finished batch with a group whose planar sum is 0 and a group whose
\* sums differ
C19_Witness ==
    /\ Built
    /\ \E m, n \in DOMAIN projects :
          /\ projects[m].data.area_planar_m2 = 0
          /\ projects[n].data.area_planar_m2 > 0
          /\ projects[n].data.area_geodesic_m2 # projects[n].data.area_planar_m2
    /\ total_planar > 0

---------------------------------------------------------------------------
(* C20 *)

\* the (owner, project-or-bucket) pairs under which the loop accumulates a
\* feature: its project, and the bucket when it has no project or its
\* geometry failed
PairsOf(f) ==
    (IF HasNoProject(f) THEN {}
     ELSE {<<extract_owner(f), extract_project_name(f).v>>})
    \cup
    (IF HasNoProject(f) \/ ~GeometryOk(f)
     THEN {<<extract_owner(f), InvalidPaddocks>>} ELSE {})

ProcessedPairs == UNION {PairsOf(features[k]) : k \in Processed}

\* C20: two features are accumulated into the same group if and only if
\* they have the same derived owner and the same project-or-bucket label,
\* also for owners and projects that contain "::": there is one accumulator
\* for each pair, and the owner and the project that finalization reads back
\* for a group are the ones derived for its features.
C20_GroupsAreOwnerProjectPairs ==
    /\ Len(projects) = Cardinality(ProcessedPairs)
    /\ \A n \in DOMAIN projects :
          <<SplitOnce(projects[n].key)[1], SplitOnce(projects[n].key)[2]>>
             \in ProcessedPairs
    /\ Built =>
          {project_list[m].project_name : m \in DOMAIN project_list}
             = {pair[2] : pair \in ProcessedPairs}

---------------------------------------------------------------------------
(* C21 *)

\* the processed features that have no project or whose geometry failed
InvalidFeatures == {k \in Processed : HasNoProject(features[k]) \/ ~GeometryOk(features[k])}

\* the rows listed in the groups that are an owner's "Invalid Paddocks" bucket
BucketRows ==
    SumSeq([n \in DOMAIN projects |->
              IF EndsWith(projects[n].key, Sep \o InvalidPaddocks)
              THEN Len(projects[n].data.paddocks) ELSE 0])

\* C21: after a batch is processed, invalid_paddocks of the summary is the
\* number of features that have no project or whose geometry failed, each
\* counted once, and it is the number of rows listed in all "Invalid
\* Paddocks" groups, also when the project of a feature is named
\* "Invalid Paddocks".
C21_InvalidCountIsBucketRows ==
    LoopDone =>
      /\ ComputedSummary.invalid_paddocks = Cardinality(InvalidFeatures)
      /\ ComputedSummary.invalid_paddocks = BucketRows

====
